---- MODULE Spec2Model ----
(***************************************************************************)
(* Interval-walking timer (NorthPhoenix/iwt-app).                          *)
(*                                                                         *)
(* Three revisions of the App component live in the repository and are     *)
(* modelled side by side; `prog' says which one a behaviour runs:          *)
(*   "App"    src/App.tsx          setTimeout loop, startTime/pausedTime   *)
(*   "Acc"    src/unnamed/part_001 accumulatedMs/startMonoMs, rendering    *)
(*            delegated to TimerDisplay (src/unnamed/part_002)             *)
(*   "Legacy" src/unnamed/part_000 setInterval count-down                  *)
(*                                                                         *)
(* React is modelled as it schedules the code: the state updates of one    *)
(* handler (or timer callback) are batched and committed when it returns;  *)
(* an effect whose dependencies changed in that commit is then pending and *)
(* is flushed (clean-up, then body) before any other handler, timer        *)
(* callback or render runs.  Clock readings may differ between the handler *)
(* and the flush of the effect.                                            *)
(* The release build is modelled: the `Test Confetti' button, rendered     *)
(* only when __DEV__, is left out.                                         *)
(***************************************************************************)
EXTENDS Integers, Sequences, FiniteSets, TLC

VARIABLES
  prog,             \* which revision runs
  now,              \* the clock: Date.now() / performance.now(), in ms
  op,               \* history: the operation that produced this state
  isTimerActive,    \* useState(false)
  isPausePrompt,    \* App.tsx useState(false)
  customDuration,   \* minutes as text: a sequence of characters
  trainingDuration, \* seconds
  startTime,        \* App.tsx: number | null
  pausedTime,       \* App.tsx: total ms spent paused
  pauseStartTime,   \* App.tsx: number | null
  timeRemaining,    \* seconds
  timeoutRef,       \* App.tsx: timeoutRef.current, a timeout handle or null
  timers,           \* the timeouts set and neither fired nor cleared
  showConfetti,
  effectPending,    \* the timer lifecycle effect is to be flushed
  awaitComplete,    \* handleTimerComplete is suspended at its await
  isRunning,        \* part_001: useState(false)
  accumulatedMs,    \* part_001: useMMKVNumber, number | undefined
  durationMs,       \* part_001: useState(30 * 60 * 1000)
  startMonoMs,      \* part_001: useMMKVNumber, number | undefined
  sv,               \* part_002: the shared values of TimerDisplay
  syncPending,      \* part_002: the prop-sync effects are to be flushed
  doneQueued,       \* part_002: onDone calls scheduled onto the JS thread
  intervalId,       \* part_000: a setInterval is pending
  sent,             \* history: notifications requested in this session
  ranMs,            \* history: ms the session has spent Running since start
  sessions,         \* history: sessions started
  pauses            \* history: pauses of this session

\* state of every revision
common == <<isTimerActive, customDuration, trainingDuration, timeRemaining,
            showConfetti, effectPending>>

\* state of App.tsx alone
appOnly == <<isPausePrompt, startTime, pausedTime, pauseStartTime, timeoutRef,
             timers, awaitComplete>>

\* state of part_001 and part_002 alone
accOnly == <<isRunning, accumulatedMs, durationMs, startMonoMs, sv,
             syncPending, doneQueued>>

\* state of part_000 alone
legacyOnly == <<intervalId>>

appVars == <<common, appOnly, accOnly, legacyOnly>>

hist == <<ranMs, sessions, pauses>>

vars == <<prog, now, op, appVars, sent, hist>>

----------------------------------------------------------------------------
(* Values *)

\* JavaScript null / undefined
Null == -1

\* JavaScript NaN, as parseInt returns it
NaN == -1000000

\* The clock reading when the app is mounted (any positive reading)
ClockOrigin == 5000

\* Notifications of one session kept in the history
MaxSent == 20

\* Sessions started in one behaviour
MaxSessions == 2

\* Pauses in one session
MaxPauses == 2

\* Milliseconds after ClockOrigin at which the clock is read: around the
\* start, around the 180 s boundary (inside and outside the 100 ms window
\* of the boundary test), 360 s, 400 s, and the ends of the 15 and 30
\* minute sessions
ReadOffsets == {0, 1000, 180000, 180050, 180150, 181000, 360000,
                400000, 900000, 1800000}

Instants == {ClockOrigin + o : o \in ReadOffsets}

\* the readings when the handlers are called in any state
ApiOffsets == {0, 1000, 300000, 900000}

ApiInstants == {ClockOrigin + o : o \in ApiOffsets}

\* The texts the preset buttons pass (App.tsx 548-560)
PresetTexts == {<<"1", "5">>, <<"3", "0">>, <<"6", "0">>}

Digit == [c \in {"0", "1", "2", "3", "4", "5", "6", "7", "8", "9"} |->
            CASE c = "0" -> 0 [] c = "1" -> 1 [] c = "2" -> 2 [] c = "3" -> 3
              [] c = "4" -> 4 [] c = "5" -> 5 [] c = "6" -> 6 [] c = "7" -> 7
              [] c = "8" -> 8 [] c = "9" -> 9]

IsDigit(c) == c \in DOMAIN Digit

RECURSIVE SkipSpace(_)
SkipSpace(s) == IF s # <<>> /\ Head(s) = " " THEN SkipSpace(Tail(s)) ELSE s

RECURSIVE DigitsValue(_, _)
\* the value of the longest prefix of digits of s, continuing from acc
DigitsValue(s, acc) ==
  IF s # <<>> /\ IsDigit(Head(s))
    THEN DigitsValue(Tail(s), acc * 10 + Digit[Head(s)])
    ELSE acc

\* parseInt(text): leading white space skipped, an optional sign, then the
\* longest prefix of decimal digits; NaN when there is no digit
ParseInt(text) ==
  LET s    == SkipSpace(text)
      neg  == s # <<>> /\ Head(s) = "-"
      body == IF s # <<>> /\ Head(s) \in {"-", "+"} THEN Tail(s) ELSE s
  IN  IF body = <<>> \/ ~IsDigit(Head(body)) THEN NaN
      ELSE IF neg THEN 0 - DigitsValue(body, 0) ELSE DigitsValue(body, 0)

IsNaN(x) == x = NaN

Max(a, b) == IF a >= b THEN a ELSE b

\* Math.floor(a / b) for b > 0
Floor(a, b) == a \div b

----------------------------------------------------------------------------
(* Notifications *)

\* a faulty variant of the message choice: the session-halfway test comes
\* first
IntervalMessageHalfwayFirst(elapsedSeconds, duration) ==
  LET minutes      == Floor(elapsedSeconds, 60)
      totalMinutes == Floor(duration, 60)
  IN  IF minutes = Floor(totalMinutes, 2) THEN <<"HalfwaySession", totalMinutes>>
      ELSE IF minutes = 3 THEN <<"GreatStart">>
      ELSE IF minutes = 6 THEN <<"HalfwayFirstInterval">>
      ELSE IF minutes = totalMinutes - 3 THEN <<"AlmostThere">>
      ELSE <<"KeepGoing", minutes>>

\* sendIntervalNotification: the message chosen for elapsedSeconds, as the
\* text it is and the number the text cites
IntervalMessage(elapsedSeconds, duration) ==
  LET minutes      == Floor(elapsedSeconds, 60)
      totalMinutes == Floor(duration, 60)
  IN  IF minutes = 3 THEN <<"GreatStart">>
      ELSE IF minutes = 6 THEN <<"HalfwayFirstInterval">>
      ELSE IF minutes = Floor(totalMinutes, 2)
        THEN <<"HalfwaySession", totalMinutes>>
      ELSE IF minutes = totalMinutes - 3 THEN <<"AlmostThere">>
      ELSE <<"KeepGoing", minutes>>

StartNote == [kind |-> "start", at |-> 0, msg |-> "Started"]

CompleteNote == [kind |-> "complete", at |-> 0, msg |-> "Complete"]

IntervalNote(elapsedSeconds, duration) ==
  [kind |-> "interval", at |-> elapsedSeconds,
   msg |-> IntervalMessage(elapsedSeconds, duration)]

----------------------------------------------------------------------------
(* App.tsx *)

\* the dependencies of the timer lifecycle effect, those of tick included
EffectDeps == <<isTimerActive, startTime, pausedTime, trainingDuration,
                timeRemaining>>

\* after a commit the effect is pending when a dependency changed
Commit == effectPending' = (EffectDeps' # EffectDeps)

Running ==
  CASE prog = "App" -> isTimerActive /\ startTime # Null
    [] prog = "Acc" -> isTimerActive /\ isRunning
    [] OTHER -> isTimerActive

Paused ==
  CASE prog = "App" -> ~isTimerActive /\ isPausePrompt
    [] prog = "Acc" -> isTimerActive /\ ~isRunning
    [] OTHER -> FALSE

\* a faulty variant of the range test: 120 minutes is refused
DurationValidBelow120(duration) ==
  ~(IsNaN(duration) \/ duration < 5 \/ duration >= 120)

DurationValid(duration) == ~(IsNaN(duration) \/ duration < 5 \/ duration > 120)

\* the `previous second' of the boundary test, 100 ms back
PreviousElapsedSeconds(totalElapsedMs) == Floor(totalElapsedMs - 100, 1000)

\* tick: whether elapsed time is taken to have crossed a 3-minute boundary
CrossedBoundary(totalElapsedMs) ==
  LET totalElapsedSeconds == Floor(totalElapsedMs, 1000)
  IN  /\ totalElapsedSeconds > 0
      /\ totalElapsedSeconds % 180 = 0
      /\ Floor(totalElapsedSeconds, 180)
           > Floor(PreviousElapsedSeconds(totalElapsedMs), 180)

\* timeoutRef.current when it is null
NoTimeout == [pending |-> FALSE, due |-> 0,
              tick |-> [active |-> FALSE, start |-> Null, paused |-> 0,
                        duration |-> 0]]

\* the handle setTimeout(tick, delay) returns at the reading t
Timeout(c, t, delay) == [pending |-> TRUE, due |-> t + delay, tick |-> c]

\* a faulty variant of the clearing: the reference is dropped and the timeout
\* is left pending
ClearTimeoutRefOnly(T, ref) == [timers |-> T, ref |-> NoTimeout]

\* if (timeoutRef.current) { clearTimeout(timeoutRef.current);
\*                           timeoutRef.current = null }
ClearTimeout(T, ref) == [timers |-> T \ {ref}, ref |-> NoTimeout]

\* a faulty variant of the delay: a fixed second, whatever the target
TickDelayFixed(targetTime, t) == 1000

\* a faulty variant of the delay: up to the next whole second of the clock
TickDelayWallClock(targetTime, t) == 1000 - (t % 1000)

\* tick: the delay passed to setTimeout
TickDelay(targetTime, t) ==
  IF targetTime - t < 0 THEN 1 ELSE targetTime - t

\* a faulty variant of handleTimerComplete: the session is left active and
\* its start anchor is kept
HandleTimerCompleteStaysActive(duration, T, ref) ==
  /\ Len(sent) < MaxSent
  /\ timers' = ClearTimeout(T, ref).timers
  /\ timeoutRef' = ClearTimeout(T, ref).ref
  /\ timeRemaining' = duration
  /\ sent' = Append(sent, CompleteNote)
  /\ awaitComplete' = TRUE
  /\ UNCHANGED <<isTimerActive, startTime, pausedTime, pauseStartTime>>

\* a faulty variant of handleTimerComplete: the delivery is awaited before
\* the timer is stopped and reset
HandleTimerCompleteAwaitsFirst(duration, T, ref) ==
  /\ Len(sent) < MaxSent
  /\ timers' = T
  /\ timeoutRef' = ref
  /\ sent' = Append(sent, CompleteNote)
  /\ awaitComplete' = TRUE
  /\ UNCHANGED <<isTimerActive, startTime, pausedTime, pauseStartTime,
                 timeRemaining>>

\* a faulty variant of handleTimerComplete: the interval notification of the
\* boundary the session ends on is sent before the completion notification
HandleTimerCompleteNotifiesBoundary(duration, T, ref) ==
  /\ Len(sent) + 1 < MaxSent
  /\ isTimerActive' = FALSE
  /\ timers' = ClearTimeout(T, ref).timers
  /\ timeoutRef' = ClearTimeout(T, ref).ref
  /\ startTime' = Null
  /\ pausedTime' = 0
  /\ pauseStartTime' = Null
  /\ timeRemaining' = duration
  /\ sent' = IF duration % 180 = 0
               THEN Append(Append(sent, IntervalNote(duration, duration)),
                           CompleteNote)
               ELSE Append(sent, CompleteNote)
  /\ awaitComplete' = TRUE

\* handleTimerComplete of a render whose trainingDuration is `duration', the
\* timeouts T pending and timeoutRef.current = ref
HandleTimerComplete(duration, T, ref) ==
  /\ Len(sent) < MaxSent
  /\ isTimerActive' = FALSE
  /\ timers' = ClearTimeout(T, ref).timers
  /\ timeoutRef' = ClearTimeout(T, ref).ref
  /\ startTime' = Null
  /\ pausedTime' = 0
  /\ pauseStartTime' = Null
  /\ timeRemaining' = duration
  /\ sent' = Append(sent, CompleteNote)
  /\ awaitComplete' = TRUE

\* a faulty variant of newTimeRemaining: one second less than the value on
\* display
NewTimeRemainingDecrement(duration, totalElapsedSeconds) ==
  Max(0, timeRemaining - 1)

\* newTimeRemaining of tick
NewTimeRemaining(duration, totalElapsedSeconds) ==
  Max(0, duration - totalElapsedSeconds)

\* tick as the closure c = [active, start, paused, duration] runs it at the
\* clock reading `now', with the timeouts T pending and timeoutRef.current =
\* ref; the commit of its state updates is part of the step
Tick(c, T, ref) ==
  IF ~c.active \/ c.start = Null \/ c.start = 0
  THEN /\ timers' = T
       /\ timeoutRef' = ref
       /\ UNCHANGED <<isTimerActive, startTime, pausedTime, pauseStartTime,
                      timeRemaining, awaitComplete, sent>>
  ELSE
    LET totalElapsedMs      == now - c.start - c.paused
        totalElapsedSeconds == Floor(totalElapsedMs, 1000)
        newTimeRemaining    == NewTimeRemaining(c.duration,
                                                totalElapsedSeconds)
        targetTime == c.start + c.paused + (totalElapsedSeconds + 1) * 1000
        next       == Timeout(c, now, TickDelay(targetTime, now))
    IN  IF newTimeRemaining = 0
        THEN HandleTimerComplete(c.duration, T, ref)
        ELSE /\ timeRemaining' = newTimeRemaining
             /\ IF CrossedBoundary(totalElapsedMs)
                  THEN /\ Len(sent) < MaxSent
                       /\ sent' = Append(sent,
                                    IntervalNote(totalElapsedSeconds, c.duration))
                  ELSE sent' = sent
             /\ timers' = T \cup {next}
             /\ timeoutRef' = next
             /\ UNCHANGED <<isTimerActive, startTime, pausedTime,
                            pauseStartTime, awaitComplete>>

\* the countdown of the current 3-minute interval a render derives from its
\* state
ElapsedSeconds == trainingDuration - timeRemaining

CurrentIntervalRemaining ==
  IF timeRemaining = 0 THEN 0
  ELSE IF ElapsedSeconds % 180 = 0 THEN 180
  ELSE 180 - (ElapsedSeconds % 180)

\* the tick of the current render
CurrentTick == [active |-> isTimerActive, start |-> startTime,
                paused |-> pausedTime, duration |-> trainingDuration]

setPresetDuration(minutes) ==
  /\ prog = "App" /\ ~effectPending
  /\ op' = "setPresetDuration"
  /\ customDuration' = minutes
  /\ trainingDuration' = (IF IsNaN(ParseInt(minutes)) THEN NaN
                          ELSE ParseInt(minutes) * 60)
  /\ UNCHANGED <<isTimerActive, isPausePrompt, startTime, pausedTime,
                 pauseStartTime, timeRemaining, timeoutRef, timers,
                 showConfetti, awaitComplete, sent>>
  /\ Commit

startTimer ==
  /\ prog = "App" /\ ~effectPending
  /\ LET duration == ParseInt(customDuration)
     IN  IF ~DurationValid(duration)
         THEN /\ op' = "startRejected"
              /\ UNCHANGED <<common, appOnly, sent>>
         ELSE /\ op' = "startTimer"
              /\ trainingDuration' = duration * 60
              /\ timeRemaining' = duration * 60
              /\ startTime' = now
              /\ pausedTime' = 0
              /\ pauseStartTime' = Null
              /\ timers' = ClearTimeout(timers, timeoutRef).timers
              /\ timeoutRef' = ClearTimeout(timers, timeoutRef).ref
              /\ isTimerActive' = TRUE
              /\ sent' = <<StartNote>>
              /\ UNCHANGED <<isPausePrompt, customDuration, showConfetti,
                             awaitComplete>>
              /\ Commit

\* a faulty variant of stopTimer: the pending timeout is not cleared
stopTimerKeepsTimeout ==
  /\ prog = "App" /\ ~effectPending
  /\ op' = "stopTimer"
  /\ isTimerActive' = FALSE
  /\ isPausePrompt' = TRUE
  /\ pauseStartTime' = now
  /\ UNCHANGED <<customDuration, trainingDuration, startTime, pausedTime,
                 timeRemaining, timeoutRef, timers, showConfetti,
                 awaitComplete, sent>>
  /\ Commit

stopTimer ==
  /\ prog = "App" /\ ~effectPending
  /\ op' = "stopTimer"
  /\ isTimerActive' = FALSE
  /\ isPausePrompt' = TRUE
  /\ pauseStartTime' = now
  /\ timers' = ClearTimeout(timers, timeoutRef).timers
  /\ timeoutRef' = ClearTimeout(timers, timeoutRef).ref
  /\ UNCHANGED <<customDuration, trainingDuration, startTime, pausedTime,
                 timeRemaining, showConfetti, awaitComplete, sent>>
  /\ Commit

\* a faulty variant of continueTraining: the last pause replaces the paused
\* total instead of being added to it
continueTrainingOverwrites ==
  /\ prog = "App" /\ ~effectPending
  /\ op' = "continueTraining"
  /\ isPausePrompt' = FALSE
  /\ IF pauseStartTime # Null
       THEN /\ pausedTime' = now - pauseStartTime
            /\ pauseStartTime' = Null
       ELSE UNCHANGED <<pausedTime, pauseStartTime>>
  /\ isTimerActive' = TRUE
  /\ UNCHANGED <<customDuration, trainingDuration, startTime, timeRemaining,
                 timeoutRef, timers, showConfetti, awaitComplete, sent>>
  /\ Commit

\* a faulty variant of continueTraining: the timer is not set active again
continueTrainingStaysInactive ==
  /\ prog = "App" /\ ~effectPending
  /\ op' = "continueTraining"
  /\ isPausePrompt' = FALSE
  /\ IF pauseStartTime # Null
       THEN /\ pausedTime' = pausedTime + (now - pauseStartTime)
            /\ pauseStartTime' = Null
       ELSE UNCHANGED <<pausedTime, pauseStartTime>>
  /\ UNCHANGED <<isTimerActive, customDuration, trainingDuration, startTime,
                 timeRemaining, timeoutRef, timers, showConfetti,
                 awaitComplete, sent>>
  /\ Commit

continueTraining ==
  /\ prog = "App" /\ ~effectPending
  /\ op' = "continueTraining"
  /\ isPausePrompt' = FALSE
  /\ IF pauseStartTime # Null
       THEN /\ pausedTime' = pausedTime + (now - pauseStartTime)
            /\ pauseStartTime' = Null
       ELSE UNCHANGED <<pausedTime, pauseStartTime>>
  /\ isTimerActive' = TRUE
  /\ UNCHANGED <<customDuration, trainingDuration, startTime, timeRemaining,
                 timeoutRef, timers, showConfetti, awaitComplete, sent>>
  /\ Commit

\* a faulty variant of endTraining: the anchors of the session are kept
endTrainingKeepsAnchors ==
  /\ prog = "App" /\ ~effectPending
  /\ op' = "endTraining"
  /\ isPausePrompt' = FALSE
  /\ isTimerActive' = FALSE
  /\ timers' = ClearTimeout(timers, timeoutRef).timers
  /\ timeoutRef' = ClearTimeout(timers, timeoutRef).ref
  /\ timeRemaining' = trainingDuration
  /\ UNCHANGED <<customDuration, trainingDuration, startTime, pausedTime,
                 pauseStartTime, showConfetti, awaitComplete, sent>>
  /\ Commit

endTraining ==
  /\ prog = "App" /\ ~effectPending
  /\ op' = "endTraining"
  /\ isPausePrompt' = FALSE
  /\ isTimerActive' = FALSE
  /\ timers' = ClearTimeout(timers, timeoutRef).timers
  /\ timeoutRef' = ClearTimeout(timers, timeoutRef).ref
  /\ startTime' = Null
  /\ pausedTime' = 0
  /\ pauseStartTime' = Null
  /\ timeRemaining' = trainingDuration
  /\ UNCHANGED <<customDuration, trainingDuration, showConfetti,
                 awaitComplete, sent>>
  /\ Commit

\* a pending timeout fires and runs the tick it was given
TimeoutFire ==
  /\ prog = "App" /\ ~effectPending
  /\ \E t \in timers :
       /\ now >= t.due
       /\ Tick(t.tick, timers \ {t}, timeoutRef)
  /\ op' = "tick"
  /\ UNCHANGED <<isPausePrompt, customDuration, trainingDuration,
                 showConfetti>>
  /\ Commit

\* the timer lifecycle effect: the clean-up of its last run clears the
\* timeout, then the body either runs tick directly or clears the timeout
TimerLifecycleEffect ==
  /\ prog = "App" /\ effectPending
  /\ LET cleaned == ClearTimeout(timers, timeoutRef)
     IN  IF isTimerActive /\ startTime # Null /\ startTime # 0
              /\ timeRemaining > 0
           THEN /\ op' = "effectTick"
                /\ Tick(CurrentTick, cleaned.timers, cleaned.ref)
           ELSE /\ op' = "effect"
                /\ timers' = cleaned.timers
                /\ timeoutRef' = cleaned.ref
                /\ UNCHANGED <<isTimerActive, startTime, pausedTime,
                               pauseStartTime, timeRemaining, awaitComplete,
                               sent>>
  /\ UNCHANGED <<isPausePrompt, customDuration, trainingDuration,
                 showConfetti>>
  /\ Commit

\* handleTimerComplete resumes after its await: setShowConfetti(true)
CompleteNotificationSettled ==
  /\ prog = "App" /\ ~effectPending /\ awaitComplete
  /\ op' = "completeSettled"
  /\ awaitComplete' = FALSE
  /\ showConfetti' = TRUE
  /\ UNCHANGED <<isTimerActive, isPausePrompt, customDuration,
                 trainingDuration, startTime, pausedTime, pauseStartTime,
                 timeRemaining, timeoutRef, timers, effectPending, sent>>

\* the delivery awaited by handleTimerComplete is rejected: the handler ends
\* at its await and setShowConfetti(true) is never reached
\* (the start notification is awaited after startTimer's state updates and
\* an interval notification is not awaited by tick: their rejection changes
\* no state kept here)
CompleteNotificationFailed ==
  /\ prog = "App" /\ ~effectPending /\ awaitComplete
  /\ op' = "completeFailed"
  /\ awaitComplete' = FALSE
  /\ UNCHANGED <<isTimerActive, isPausePrompt, customDuration,
                 trainingDuration, startTime, pausedTime, pauseStartTime,
                 timeRemaining, timeoutRef, timers, showConfetti,
                 effectPending, sent>>

\* ConfettiCannon onAnimationEnd
ConfettiEnd ==
  /\ prog = "App" /\ ~effectPending /\ showConfetti
  /\ op' = "confettiEnd"
  /\ showConfetti' = FALSE
  /\ UNCHANGED <<isTimerActive, isPausePrompt, customDuration,
                 trainingDuration, startTime, pausedTime, pauseStartTime,
                 timeRemaining, timeoutRef, timers, effectPending,
                 awaitComplete, sent>>

----------------------------------------------------------------------------
(* The clock and the history *)

\* time passes until a reading in S; part_000 never reads the clock
AdvanceTo(S) ==
  /\ prog # "Legacy"
  /\ \E t \in S :
       /\ t > now
       /\ now' = t
       /\ ranMs' = IF Running THEN ranMs + (t - now) ELSE ranMs
  /\ op' = "advance"
  /\ UNCHANGED <<prog, appVars, sent, sessions, pauses>>

AdvanceClock == AdvanceTo(Instants)

AdvanceClockApi == AdvanceTo(ApiInstants)

\* the history kept of a step of the program, and the bounds on it
History ==
  /\ op' = "startTimer" => sessions < MaxSessions
  /\ op' = "stopTimer" => pauses < MaxPauses
  /\ sessions' = IF op' = "startTimer" THEN sessions + 1 ELSE sessions
  /\ pauses' = IF op' = "startTimer" THEN 0
               ELSE IF op' = "stopTimer" THEN pauses + 1 ELSE pauses
  /\ ranMs' = IF op' = "startTimer" THEN 0 ELSE ranMs
  /\ UNCHANGED <<prog, now>>


----------------------------------------------------------------------------
(* part_001 (App with accumulatedMs) and part_002 (TimerDisplay) *)

\* the durations the preset buttons pass (part_001 357-371), in seconds
PresetSeconds == {15 * 60, 30 * 60, 60 * 60}

\* onDone calls that may wait for the JS thread at once
MaxQueued == 2

\* a faulty variant of `accumulatedMs ?? 0': the value as it is
OrZeroAsIs(x) == x

\* accumulatedMs ?? 0
OrZero(x) == IF x = Null THEN 0 ELSE x

\* the shared values while TimerDisplay is not mounted
NoDisplay == [base |-> 0, startMono |-> 0, running |-> FALSE, duration |-> 0,
              render |-> 0]

\* useSharedValue(...): the shared values as the first render creates them
MountDisplay(duration, accumulated, running, startMono) ==
  [base |-> accumulated, startMono |-> OrZero(startMono), running |-> running,
   duration |-> duration, render |-> accumulated]

\* the two prop-sync effects of TimerDisplay (part_002 79-104)
SyncDisplay(d, duration, accumulated, running, startMono) ==
  IF running /\ startMono # Null
    THEN [base |-> accumulated, startMono |-> startMono, running |-> running,
          duration |-> duration, render |-> accumulated]
    ELSE [base |-> accumulated, startMono |-> d.startMono, running |-> running,
          duration |-> duration, render |-> accumulated]

\* the props App passes to TimerDisplay
DisplayProps == <<durationMs, OrZero(accumulatedMs), isRunning, startMonoMs>>

\* the commit of a handler of part_001: TimerDisplay is rendered while
\* isTimerActive; it is mounted, unmounted, or its effects become pending
AccCommit ==
  IF ~isTimerActive'
    THEN sv' = NoDisplay /\ syncPending' = FALSE
    ELSE IF ~isTimerActive
      THEN /\ sv' = MountDisplay(durationMs', OrZero(accumulatedMs'),
                                 isRunning', startMonoMs')
           /\ syncPending' = FALSE
      ELSE /\ sv' = sv
           /\ syncPending' = (syncPending \/ DisplayProps' # DisplayProps)

AccSetPresetDuration(seconds) ==
  /\ prog = "Acc" /\ ~syncPending
  /\ op' = "setPresetDuration"
  /\ trainingDuration' = seconds
  /\ durationMs' = seconds * 1000
  /\ UNCHANGED <<isTimerActive, isRunning, accumulatedMs, startMonoMs,
                 showConfetti, doneQueued>>
  /\ AccCommit

\* a faulty variant of startTimer: the accumulated total of the session
\* before is kept
AccStartTimerKeepsAccumulated ==
  /\ prog = "Acc" /\ ~syncPending
  /\ op' = "startTimer"
  /\ isTimerActive' = TRUE
  /\ durationMs' = trainingDuration * 1000
  /\ startMonoMs' = now
  /\ isRunning' = TRUE
  /\ UNCHANGED <<trainingDuration, accumulatedMs, showConfetti, doneQueued>>
  /\ AccCommit

AccStartTimer ==
  /\ prog = "Acc" /\ ~syncPending
  /\ op' = "startTimer"
  /\ isTimerActive' = TRUE
  /\ accumulatedMs' = 0
  /\ durationMs' = trainingDuration * 1000
  /\ startMonoMs' = now
  /\ isRunning' = TRUE
  /\ UNCHANGED <<trainingDuration, showConfetti, doneQueued>>
  /\ AccCommit

\* a faulty variant of stopTimer: the open segment replaces the total instead
\* of being added to it
AccStopTimerOverwrites ==
  /\ prog = "Acc" /\ ~syncPending
  /\ op' = "stopTimer"
  /\ isRunning' = FALSE
  /\ IF startMonoMs # Null
       THEN /\ accumulatedMs' = now - startMonoMs
            /\ startMonoMs' = Null
       ELSE UNCHANGED <<accumulatedMs, startMonoMs>>
  /\ UNCHANGED <<isTimerActive, trainingDuration, durationMs, showConfetti,
                 doneQueued>>
  /\ AccCommit

AccStopTimer ==
  /\ prog = "Acc" /\ ~syncPending
  /\ op' = "stopTimer"
  /\ isRunning' = FALSE
  /\ IF startMonoMs # Null
       THEN /\ accumulatedMs' = OrZero(accumulatedMs) + (now - startMonoMs)
            /\ startMonoMs' = Null
       ELSE UNCHANGED <<accumulatedMs, startMonoMs>>
  /\ UNCHANGED <<isTimerActive, trainingDuration, durationMs, showConfetti,
                 doneQueued>>
  /\ AccCommit

AccContinueTraining ==
  /\ prog = "Acc" /\ ~syncPending
  /\ op' = "continueTraining"
  /\ startMonoMs' = now
  /\ isRunning' = TRUE
  /\ UNCHANGED <<isTimerActive, trainingDuration, durationMs, accumulatedMs,
                 showConfetti, doneQueued>>
  /\ AccCommit

AccEndTraining ==
  /\ prog = "Acc" /\ ~syncPending
  /\ op' = "endTraining"
  /\ isTimerActive' = FALSE
  /\ isRunning' = FALSE
  /\ accumulatedMs' = 0
  /\ startMonoMs' = Null
  /\ UNCHANGED <<trainingDuration, durationMs, showConfetti, doneQueued>>
  /\ AccCommit

\* the onDone prop, run on the JS thread by scheduleOnRN
AccOnDone ==
  /\ prog = "Acc" /\ ~syncPending
  /\ doneQueued > 0
  /\ op' = "onDone"
  /\ doneQueued' = doneQueued - 1
  /\ isRunning' = FALSE
  /\ isTimerActive' = FALSE
  /\ showConfetti' = TRUE
  /\ UNCHANGED <<trainingDuration, durationMs, accumulatedMs, startMonoMs>>
  /\ AccCommit

AccConfettiEnd ==
  /\ prog = "Acc" /\ ~syncPending /\ showConfetti
  /\ op' = "confettiEnd"
  /\ showConfetti' = FALSE
  /\ UNCHANGED <<isTimerActive, trainingDuration, accOnly>>

\* the decimal digits of n >= 0, as `${n}` writes them
RECURSIVE Decimal(_)
Decimal(n) ==
  LET d == <<"0", "1", "2", "3", "4", "5", "6", "7", "8", "9">>
  IN  IF n < 10 THEN <<d[n + 1]>> ELSE Decimal(n \div 10) \o <<d[(n % 10) + 1]>>

\* formatMs: mm:ss of ms, negative values clamped to 0
FormatMs(ms) ==
  LET clamped      == IF ms < 0 THEN 0 ELSE ms
      totalSeconds == Floor(clamped, 1000)
      minutes      == Floor(totalSeconds, 60)
      seconds      == totalSeconds % 60
      mm == IF minutes < 10 THEN <<"0">> \o Decimal(minutes) ELSE Decimal(minutes)
      ss == IF seconds < 10 THEN <<"0">> \o Decimal(seconds) ELSE Decimal(seconds)
  IN  mm \o <<":">> \o ss

\* a faulty variant of the remaining time: not clamped at zero
DisplayRemainingUnclamped(d) == d.duration - d.render

\* animatedProps: the remaining time of the shared values d
DisplayRemaining(d) == Max(0, d.duration - d.render)

\* animatedProps: the text shown (showRemaining is left at its default)
DisplayLabel(d) == FormatMs(DisplayRemaining(d))

\* the effects of TimerDisplay that sync the shared values with the props
DisplaySyncEffect ==
  /\ prog = "Acc" /\ syncPending
  /\ op' = "sync"
  /\ sv' = SyncDisplay(sv, durationMs, OrZero(accumulatedMs), isRunning,
                       startMonoMs)
  /\ syncPending' = FALSE
  /\ UNCHANGED <<isTimerActive, trainingDuration, showConfetti, isRunning,
                 accumulatedMs, durationMs, startMonoMs, doneQueued>>

\* a faulty variant of the frame callback: at completion it ends the running
\* state of App itself instead of leaving that to onDone
FrameCallbackWritesBack ==
  /\ prog = "Acc" /\ isTimerActive
  /\ op' = "frame"
  /\ IF ~sv.running
       THEN UNCHANGED <<sv, doneQueued, isRunning>>
       ELSE LET elapsed == sv.base + (now - sv.startMono)
            IN  IF elapsed >= sv.duration
                  THEN /\ doneQueued < MaxQueued
                       /\ sv' = [sv EXCEPT !.base = sv.duration,
                                           !.render = sv.duration,
                                           !.running = FALSE]
                       /\ doneQueued' = doneQueued + 1
                       /\ isRunning' = FALSE
                  ELSE /\ sv' = [sv EXCEPT !.render = elapsed]
                       /\ UNCHANGED <<doneQueued, isRunning>>
  /\ UNCHANGED <<isTimerActive, trainingDuration, showConfetti,
                 accumulatedMs, durationMs, startMonoMs, syncPending>>

\* useFrameCallback: one frame on the UI thread
FrameCallback ==
  /\ prog = "Acc" /\ isTimerActive
  /\ op' = "frame"
  /\ IF ~sv.running
       THEN UNCHANGED <<sv, doneQueued>>
       ELSE LET elapsed == sv.base + (now - sv.startMono)
            IN  IF elapsed >= sv.duration
                  THEN /\ doneQueued < MaxQueued
                       /\ sv' = [sv EXCEPT !.base = sv.duration,
                                           !.render = sv.duration,
                                           !.running = FALSE]
                       /\ doneQueued' = doneQueued + 1
                  ELSE /\ sv' = [sv EXCEPT !.render = elapsed]
                       /\ UNCHANGED doneQueued
  /\ UNCHANGED <<isTimerActive, trainingDuration, showConfetti, isRunning,
                 accumulatedMs, durationMs, startMonoMs, syncPending>>

----------------------------------------------------------------------------
(* part_000 (setInterval count-down) *)

\* the dependencies of the count-down effect
LegacyDeps == <<isTimerActive, timeRemaining, trainingDuration>>

LegacyCommit == effectPending' = (LegacyDeps' # LegacyDeps)

LegacyValidateAndSetDuration(text) ==
  /\ prog = "Legacy" /\ ~effectPending
  /\ op' = "validateAndSetDuration"
  /\ LET numValue == ParseInt(text)
     IN  IF text = <<>>
           THEN customDuration' = text /\ UNCHANGED trainingDuration
         ELSE IF ~IsNaN(numValue) /\ numValue >= 5 /\ numValue <= 120
           THEN customDuration' = text /\ trainingDuration' = numValue * 60
         ELSE IF ~IsNaN(numValue) /\ (numValue < 5 \/ numValue > 120)
           THEN customDuration' = text /\ UNCHANGED trainingDuration
         ELSE customDuration' = <<"3", "0">> /\ trainingDuration' = 30 * 60
  /\ UNCHANGED <<isTimerActive, timeRemaining, showConfetti, intervalId, sent>>
  /\ LegacyCommit

LegacySetPresetDuration(minutes) ==
  /\ prog = "Legacy" /\ ~effectPending
  /\ op' = "setPresetDuration"
  /\ customDuration' = minutes
  /\ trainingDuration' = (IF IsNaN(ParseInt(minutes)) THEN NaN
                          ELSE ParseInt(minutes) * 60)
  /\ UNCHANGED <<isTimerActive, timeRemaining, showConfetti, intervalId, sent>>
  /\ LegacyCommit

LegacyStartTimer ==
  /\ prog = "Legacy" /\ ~effectPending
  /\ LET duration == ParseInt(customDuration)
     IN  IF ~DurationValid(duration)
         THEN /\ op' = "startRejected"
              /\ UNCHANGED <<common, legacyOnly, sent>>
         ELSE /\ op' = "startTimer"
              /\ trainingDuration' = duration * 60
              /\ isTimerActive' = TRUE
              /\ timeRemaining' = duration * 60
              /\ sent' = <<StartNote>>
              /\ UNCHANGED <<customDuration, showConfetti, intervalId>>
              /\ LegacyCommit

\* part_000's stopTimer ends the session
LegacyStopTimer ==
  /\ prog = "Legacy" /\ ~effectPending
  /\ op' = "endTraining"
  /\ isTimerActive' = FALSE
  /\ timeRemaining' = trainingDuration
  /\ UNCHANGED <<customDuration, trainingDuration, showConfetti, intervalId,
                 sent>>
  /\ LegacyCommit

\* the setInterval callback: one second counted down
LegacyIntervalTick ==
  /\ prog = "Legacy" /\ ~effectPending
  /\ intervalId
  /\ op' = "tick"
  /\ LET newTime == timeRemaining - 1
     IN  /\ timeRemaining' = newTime
         /\ IF newTime > 0 /\ (trainingDuration - newTime) % 180 = 0
              THEN /\ Len(sent) < MaxSent
                   /\ sent' = Append(sent, IntervalNote(trainingDuration - newTime,
                                                        trainingDuration))
              ELSE sent' = sent
  /\ UNCHANGED <<isTimerActive, customDuration, trainingDuration,
                 showConfetti, intervalId>>
  /\ LegacyCommit

\* the count-down effect: clean-up clears the interval; the body sets a new
\* one, or completes the session at 0
LegacyEffect ==
  /\ prog = "Legacy" /\ effectPending
  /\ op' = "effect"
  /\ IF isTimerActive /\ timeRemaining > 0
       THEN /\ intervalId' = TRUE
            /\ UNCHANGED <<isTimerActive, timeRemaining, sent>>
       ELSE IF timeRemaining = 0
         THEN \* handleTimerComplete
              /\ Len(sent) < MaxSent
              /\ intervalId' = FALSE
              /\ isTimerActive' = FALSE
              /\ timeRemaining' = trainingDuration
              /\ sent' = Append(sent, CompleteNote)
         ELSE /\ intervalId' = FALSE
              /\ UNCHANGED <<isTimerActive, timeRemaining, sent>>
  /\ UNCHANGED <<customDuration, trainingDuration, showConfetti>>
  /\ LegacyCommit

----------------------------------------------------------------------------
(* Which controls the render shows *)

\* App.tsx 469-563
ShowsStart == ~(isTimerActive \/ isPausePrompt)

ShowsStop == (isTimerActive \/ isPausePrompt) /\ ~isPausePrompt

ShowsPausePrompt == (isTimerActive \/ isPausePrompt) /\ isPausePrompt

\* part_001 271-374
AccShowsStart == ~isTimerActive

AccShowsStop == isTimerActive /\ isRunning

AccShowsPausePrompt == isTimerActive /\ ~isRunning

\* part_000 260-340
LegacyShowsStart == ~isTimerActive

LegacyShowsStop == isTimerActive

----------------------------------------------------------------------------

\* texts a caller may pass as the duration
Texts == PresetTexts \cup
         {<<>>, <<"a">>, <<"4">>, <<" ", "5", "x">>, <<"1", "2", "0">>,
          <<"1", "2", "1">>, <<"-", "5">>}

InitRest ==
  /\ now = ClockOrigin
  /\ op = "init"
  /\ isTimerActive = FALSE
  /\ isPausePrompt = FALSE
  /\ customDuration = <<"3", "0">>
  /\ startTime = Null
  /\ pausedTime = 0
  /\ pauseStartTime = Null
  /\ timeRemaining = 30 * 60
  /\ timeoutRef = NoTimeout
  /\ timers = {}
  /\ showConfetti = FALSE
  /\ effectPending = FALSE
  /\ awaitComplete = FALSE
  /\ isRunning = FALSE
  /\ durationMs = 30 * 60 * 1000
  /\ sv = NoDisplay
  /\ syncPending = FALSE
  /\ doneQueued = 0
  /\ intervalId = FALSE
  /\ sent = <<>>
  /\ ranMs = 0
  /\ sessions = 0
  /\ pauses = 0

Init ==
  /\ prog \in {"App", "Acc", "Legacy"}
  /\ trainingDuration = 30 * 60
  /\ accumulatedMs = Null
  /\ startMonoMs = Null
  /\ InitRest

\* the timers, effects and continuations the runtime runs
AppRuntime ==
  \/ TimeoutFire
  \/ TimerLifecycleEffect
  \/ CompleteNotificationSettled
  \/ CompleteNotificationFailed
  \/ ConfettiEnd

AccRuntime ==
  \/ AccOnDone
  \/ AccConfettiEnd
  \/ DisplaySyncEffect
  \/ FrameCallback

LegacyRuntime ==
  \/ LegacyIntervalTick
  \/ LegacyEffect

\* the handlers, each where the render shows its control
AppControls ==
  \/ \E m \in PresetTexts : ShowsStart /\ setPresetDuration(m)
  \/ ShowsStart /\ startTimer
  \/ ShowsStop /\ stopTimer
  \/ ShowsPausePrompt /\ continueTraining
  \/ ShowsPausePrompt /\ endTraining

AccControls ==
  \/ \E d \in PresetSeconds : AccShowsStart /\ AccSetPresetDuration(d)
  \/ AccShowsStart /\ AccStartTimer
  \/ AccShowsStop /\ AccStopTimer
  \/ AccShowsPausePrompt /\ AccContinueTraining
  \/ AccShowsPausePrompt /\ AccEndTraining

LegacyControls ==
  \/ \E m \in PresetTexts : LegacyShowsStart /\ LegacySetPresetDuration(m)
  \/ LegacyShowsStart /\ LegacyStartTimer
  \/ LegacyShowsStop /\ LegacyStopTimer

\* the handlers as an interface: start, pause, resume and end called in any
\* state, the duration text set to anything on the start screen
AppCalls ==
  \/ \E m \in Texts : ShowsStart /\ setPresetDuration(m)
  \/ startTimer
  \/ stopTimer
  \/ continueTraining
  \/ endTraining

AccCalls ==
  \/ \E d \in PresetSeconds : AccShowsStart /\ AccSetPresetDuration(d)
  \/ AccStartTimer
  \/ AccStopTimer
  \/ AccContinueTraining
  \/ AccEndTraining

LegacyCalls ==
  \/ \E m \in Texts : LegacyShowsStart /\ LegacyValidateAndSetDuration(m)
  \/ \E m \in PresetTexts : LegacyShowsStart /\ LegacySetPresetDuration(m)
  \/ LegacyStartTimer
  \/ LegacyStopTimer

AppFrame == UNCHANGED <<accOnly, legacyOnly>>

AccFrame == UNCHANGED <<customDuration, timeRemaining, effectPending, appOnly,
                        legacyOnly, sent>>

LegacyFrame == UNCHANGED <<appOnly, accOnly>>

Next ==
  \/ AdvanceClock
  \/ (AppControls \/ AppRuntime) /\ AppFrame /\ History
  \/ (AccControls \/ AccRuntime) /\ AccFrame /\ History
  \/ (LegacyControls \/ LegacyRuntime) /\ LegacyFrame /\ History

NextApi ==
  \/ AdvanceClockApi
  \/ (AppCalls \/ AppRuntime) /\ AppFrame /\ History
  \/ (AccCalls \/ AccRuntime) /\ AccFrame /\ History
  \/ (LegacyCalls \/ LegacyRuntime) /\ LegacyFrame /\ History

\* the program as its user drives it
Spec == Init /\ [][Next]_vars

\* the handlers called in any state
SpecApi == Init /\ [][NextApi]_vars

\* Date.now() is the wall clock and may be set back while the app runs
\* (performance.now(), which part_001 and part_002 read, may not).  The
\* readings of App.tsx before the clock is set back:
SkewOffsets == {0, 1000, 2000}

SkewInstants == {ClockOrigin + o : o \in SkewOffsets}

\* the readings once it has been set back; one set-back is followed
RegressInstants == {ClockOrigin - 1500}

AdvanceClockSkew ==
  /\ prog = "App" /\ now \notin RegressInstants
  /\ AdvanceTo(SkewInstants)

\* the wall clock is set back
ClockRegress ==
  /\ prog = "App"
  /\ \E t \in RegressInstants : t < now /\ now' = t
  /\ op' = "regress"
  /\ UNCHANGED <<prog, appVars, sent, hist>>

NextSkew ==
  \/ AdvanceClockSkew
  \/ ClockRegress
  \/ (AppControls \/ AppRuntime) /\ AppFrame /\ History

\* App.tsx as its user drives it, on a wall clock that may be set back
SpecSkew == Init /\ [][NextSkew]_vars

\* The most a timeout fires after the time it was requested for, in ms
MaxJitter == 50

\* The most an effect is flushed after its commit, in ms
EffectLag == 3

Jitters == {0, MaxJitter}

\* the next readings of a clock that lets every timeout fire within
\* MaxJitter of its time, and every effect run within EffectLag of its commit
FireInstants ==
  IF effectPending
    THEN (IF op = "advance" \/ ~isTimerActive THEN {} ELSE {now + EffectLag})
    ELSE {t.due + j : t \in timers, j \in Jitters}

AdvanceClockJitter == prog = "App" /\ AdvanceTo(FireInstants)

\* a session that is never paused
UnpausedControls ==
  \/ \E m \in PresetTexts : ShowsStart /\ setPresetDuration(m)
  \/ ShowsStart /\ startTimer

NextJitter ==
  \/ AdvanceClockJitter
  \/ (UnpausedControls \/ AppRuntime) /\ AppFrame /\ History

\* App.tsx running unpaused sessions on timeouts of bounded lateness
SpecJitter == Init /\ [][NextJitter]_vars

\* sendIntervalNotification as a function of its argument and of the
\* trainingDuration of its render: the total durations and the elapsed
\* seconds it is applied to
TotalMinutes == 5 .. 120

ElapsedInputs == {60 * m + r : m \in 0 .. 120, r \in {0, 59}}

InitNotify ==
  /\ prog = "Notify"
  /\ trainingDuration \in {T * 60 : T \in TotalMinutes}
  /\ accumulatedMs = Null
  /\ startMonoMs = Null
  /\ InitRest

\* one call of sendIntervalNotification(elapsedSeconds); `sent' holds the
\* delivery calls it makes
SendIntervalNotification ==
  /\ prog = "Notify"
  /\ \E elapsedSeconds \in ElapsedInputs :
       sent' = <<IntervalNote(elapsedSeconds, trainingDuration)>>
  /\ op' = "notify"
  /\ UNCHANGED <<prog, now, appVars, hist>>

NextNotify == SendIntervalNotification

SpecNotify == InitNotify /\ [][NextNotify]_vars

\* part_001 after a restart of the process: what the persistent store may
\* hold under a key: nothing, a value a session left, or a corrupt one
\* (negative, not a number, beyond any duration, a stamp of another boot)
StoredAccumulated == {Null, 0, 60000, 7200000 + 1000, -5000, NaN}

StoredStartMono ==
  {Null, ClockOrigin - 1000, ClockOrigin + 99000, -5000, NaN}

InitRestart ==
  /\ prog = "Acc"
  /\ trainingDuration = 30 * 60
  /\ accumulatedMs \in StoredAccumulated
  /\ startMonoMs \in StoredStartMono
  /\ InitRest

\* the mount effect: storage.clearAll(); the two useMMKVNumber hooks either
\* are notified of it and read undefined, or keep the value they read
MountEffect ==
  /\ prog = "Acc" /\ op = "init"
  /\ op' = "mount"
  /\ \/ accumulatedMs' = Null /\ startMonoMs' = Null
     \/ UNCHANGED <<accumulatedMs, startMonoMs>>
  /\ UNCHANGED <<isTimerActive, trainingDuration, showConfetti, isRunning,
                 durationMs, sv, syncPending, doneQueued>>

NextRestart ==
  \/ MountEffect /\ AccFrame /\ History
  \/ op # "init" /\ AdvanceClock
  \/ op # "init" /\ (AccControls \/ AccRuntime) /\ AccFrame /\ History

SpecRestart == InitRestart /\ [][NextRestart]_vars

----------------------------------------------------------------------------
(* Properties *)

\* the places of the notifications of kind k in the history of the session
Kinds(k) == {i \in DOMAIN sent : sent[i].kind = k}

\* the session status read off the state of the component
Status ==
  CASE prog = "Acc" -> IF ~isTimerActive THEN "Idle"
                       ELSE IF isRunning THEN "Running" ELSE "Paused"
    [] OTHER -> IF isTimerActive THEN "Running"
                ELSE IF isPausePrompt THEN "Paused" ELSE "Idle"

\* the status when the celebration after a completion is taken as a state
\* of its own
StatusWithCompleted ==
  IF Status = "Idle" /\ (showConfetti \/ awaitComplete) THEN "Completed"
  ELSE Status

\* C1: in part_001, whenever the session is Paused, accumulatedMs is the sum
\* of the lengths of the running segments since the last start.
C1_AccumulatedIsRunTime ==
  (prog = "Acc" /\ Paused) => accumulatedMs = ranMs

\* C1 case: paused for the second time, after two running segments and some
\* time spent paused
C1_Witness ==
  /\ prog = "Acc" /\ Paused /\ pauses = 2
  /\ accumulatedMs > 1000
  /\ accumulatedMs < now - ClockOrigin

\* C2: in App.tsx, the elapsed time a tick computes while the session runs,
\* now - startTime - pausedTime, is the total time spent Running since the
\* start: paused intervals add nothing and no running time is lost.
C2_ElapsedIsRunTime ==
  (prog = "App" /\ isTimerActive /\ startTime # Null)
    => now - startTime - pausedTime = ranMs

\* C2 case: a tick has run after two pauses of non-zero length
C2_Witness ==
  /\ prog = "App" /\ op = "tick" /\ isTimerActive
  /\ pauses = 2 /\ pausedTime > 1000 /\ ranMs > 1000

\* C3: in App.tsx, within one session each interval notification (elapsed
\* k * 180 s) is sent at most once, in strictly ascending order.
C3_IntervalOnceAscending ==
  prog = "App" =>
    \A i, j \in Kinds("interval") : i < j => sent[i].at < sent[j].at

\* C4: in App.tsx, after a tick of a running session every multiple of 180 s
\* the elapsed time has reached has its interval notification sent, however
\* late the tick ran.
C4_CatchUp ==
  (prog = "App" /\ op \in {"tick", "effectTick"} /\ isTimerActive) =>
    \A k \in 1 .. (ranMs \div 180000) :
      \E i \in Kinds("interval") : sent[i].at = k * 180

\* C5: in App.tsx, a session sends exactly one start notification; the
\* completion notification is sent at most once, by the tick that finds the
\* duration reached and by no other, and never in a session still in
\* progress or ended by endTraining.
C5_StartAndCompletionOnce ==
  prog = "App" =>
    /\ sessions > 0 => (Kinds("start") = {1})
    /\ Cardinality(Kinds("complete")) <= 1
    /\ op \in {"tick", "effectTick"} =>
         (Kinds("complete") # {} <=> ranMs >= trainingDuration * 1000)
    /\ (isTimerActive \/ isPausePrompt \/ op = "endTraining")
         => Kinds("complete") = {}

\* C5 case: a session that was paused and resumed has run its duration and
\* the tick has sent the completion notification
C5_Witness ==
  /\ prog = "App" /\ op \in {"tick", "effectTick"} /\ pauses > 0
  /\ Kinds("complete") # {} /\ Kinds("interval") # {}

\* C6: in App.tsx, once stopTimer or endTraining has returned no timeout is
\* pending, and until the session is resumed or started again no step
\* changes timeRemaining, sends a notification or schedules a tick.
C6_NoTickAfterStop ==
  /\ []((prog = "App" /\ ~isTimerActive) => timers = {})
  /\ [][(prog = "App" /\ ~isTimerActive
           /\ op' \notin {"startTimer", "continueTraining", "endTraining"})
          => (/\ timeRemaining' = timeRemaining
              /\ sent' = sent
              /\ timers' = {})]_vars

\* C6 case: stopTimer has just returned in a session whose tick had a
\* timeout pending, and the effect has not run yet
C6_Witness ==
  /\ prog = "App" /\ op = "stopTimer" /\ effectPending
  /\ timeRemaining < trainingDuration /\ timers = {}

\* C7: a pause while the session is already Paused changes no timer state,
\* in App.tsx and in part_001.
C7_SecondPauseNoEffect ==
  [][(prog \in {"App", "Acc"} /\ Paused /\ op' = "stopTimer")
       => UNCHANGED <<isTimerActive, isPausePrompt, startTime, pausedTime,
                      pauseStartTime, timeRemaining, isRunning,
                      accumulatedMs, startMonoMs>>]_vars

\* C8: a resume while the session is Running changes neither the time
\* anchors nor the accumulated totals, in part_001 and in App.tsx.
C8_ResumeWhileRunningNoOp ==
  [][(prog \in {"App", "Acc"} /\ Running /\ op' = "continueTraining")
       => UNCHANGED <<isTimerActive, startTime, pausedTime, pauseStartTime,
                      timeRemaining, isRunning, accumulatedMs,
                      startMonoMs>>]_vars

\* the duration texts startTimer is to refuse
Unacceptable(text) ==
  LET minutes == ParseInt(text)
  IN  minutes = NaN \/ minutes < 5 \/ minutes > 120

\* C9: startTimer with a duration text that does not parse to a number, or
\* parses to less than 5 or more than 120, is refused: no state changes and
\* no notification is sent; with a duration of 5 to 120 minutes it makes the
\* session Running for that many minutes (App.tsx and part_000).
C9_StartValidation ==
  [][(prog \in {"App", "Legacy"} /\ op' \in {"startTimer", "startRejected"})
       => IF Unacceptable(customDuration)
            THEN op' = "startRejected" /\ UNCHANGED <<appVars, sent>>
            ELSE (/\ op' = "startTimer"
                  /\ isTimerActive'
                  /\ trainingDuration' = ParseInt(customDuration) * 60
                  /\ timeRemaining' = ParseInt(customDuration) * 60
                  /\ sent' = <<StartNote>>)]_vars

\* C9 case: startTimer has just refused a duration above 120 minutes
C9_Witness ==
  /\ prog = "App" /\ op = "startRejected"
  /\ ParseInt(customDuration) = 121

LiveElapsed ==
  OrZero(accumulatedMs)
    + (IF isRunning /\ startMonoMs # Null THEN now - startMonoMs ELSE 0)

\* C11: in part_001, every reachable state has 0 <= accumulatedMs <=
\* durationMs, whenever the pause comes relative to the moment the elapsed
\* time passes durationMs.
C11_AccumulatedWithinDuration ==
  (prog = "Acc" /\ accumulatedMs # Null)
    => (0 <= accumulatedMs /\ accumulatedMs <= durationMs)

\* C12: in part_001, startMonoMs is present exactly while the session is
\* Running: absent while Idle, while Paused and after completion.
C12_AnchorIffRunning ==
  prog = "Acc" => (startMonoMs # Null <=> Running)

\* C13: when onDone processes the completion signal, accumulatedMs is
\* exactly durationMs.
C13_CompletionFoldsToDuration ==
  (prog = "Acc" /\ op = "onDone") => accumulatedMs = durationMs

\* C14: in a session TimerDisplay schedules onDone at most once, and never
\* while the elapsed time of the session is below durationMs.
C14_OnDoneOnce ==
  [][(prog = "Acc" /\ doneQueued' > doneQueued)
       => (doneQueued = 0 /\ LiveElapsed >= durationMs)]_vars

\* C15: a frame callback of TimerDisplay leaves the state of App unchanged;
\* it writes its shared values and schedules onDone, nothing else.
C15_FrameLeavesAppState ==
  [][(prog = "Acc" /\ op' = "frame")
       => UNCHANGED <<isRunning, isTimerActive, accumulatedMs, startMonoMs,
                      durationMs, trainingDuration, showConfetti>>]_vars

\* C15 case: a frame has found the duration reached and scheduled onDone,
\* and App is still running
C15_Witness ==
  /\ prog = "Acc" /\ op = "frame" /\ doneQueued = 1
  /\ isRunning /\ isTimerActive /\ ~sv.running

\* C16: while the session is Paused, the text TimerDisplay shows at every
\* frame is the label of accumulatedMs.
C16_FrozenWhilePaused ==
  (prog = "Acc" /\ Paused /\ op = "frame")
    => DisplayLabel(sv) = FormatMs(Max(0, durationMs - OrZero(accumulatedMs)))

\* C17: within one session the elapsed value TimerDisplay renders never
\* decreases, at pause, at resume or at completion.
C17_RenderedElapsedMonotonic ==
  [][(prog = "Acc" /\ isTimerActive /\ isTimerActive')
       => sv'.render >= sv.render]_vars

\* C18: the published remaining time is never negative: timeRemaining in
\* App.tsx, the remaining time TimerDisplay renders in part_002.
C18_RemainingNotNegative ==
  /\ prog = "App" => timeRemaining >= 0
  /\ (prog = "Acc" /\ isTimerActive) =>
       /\ DisplayRemaining(sv) >= 0
       /\ DisplayLabel(sv) = FormatMs(DisplayRemaining(sv))

\* C18 case: the display holds an elapsed value beyond the duration (a pause
\* that came late) and shows 00:00
C18_Witness ==
  /\ prog = "Acc" /\ isTimerActive /\ sv.render > sv.duration
  /\ DisplayLabel(sv) = <<"0", "0", ":", "0", "0">>

\* C19: when the clock reading a tick takes is earlier than the anchor of
\* the running segment, the segment counts as zero: the remaining time the
\* tick publishes does not exceed the duration of the session.
C19_RegressCountsAsZero ==
  (prog = "App" /\ op \in {"tick", "effectTick"} /\ isTimerActive)
    => timeRemaining <= trainingDuration

\* C20: in an unpaused session of App.tsx whose timeouts fire at most
\* MaxJitter ms late, every timeout tick runs at most MaxJitter ms after a
\* whole second of elapsed time (the lateness does not add up), and the tick
\* that completes the session runs less than 1000 ms after startTime +
\* duration.
C20_DriftBounded ==
  (prog = "App" /\ op = "tick") =>
    /\ ranMs % 1000 <= MaxJitter
    /\ Kinds("complete") # {} => ranMs < trainingDuration * 1000 + 1000

\* C20 case: the tick that completes a 30-minute session has fired as late
\* as a timeout may
C20_Witness ==
  /\ prog = "App" /\ op = "tick" /\ Kinds("complete") # {}
  /\ trainingDuration = 1800
  /\ ranMs = 1800 * 1000 + MaxJitter

\* C21: right after an accepted start the remaining time is the whole
\* duration (d * 60 seconds in App.tsx, d * 60000 ms in part_001) and the
\* elapsed and paused totals are zero, whatever the session before left.
C21_StartResets ==
  /\ (prog = "App" /\ op = "startTimer") =>
       /\ timeRemaining = ParseInt(customDuration) * 60
       /\ trainingDuration = timeRemaining
       /\ pausedTime = 0 /\ pauseStartTime = Null
       /\ now - startTime - pausedTime = 0
  /\ (prog = "Acc" /\ op = "startTimer") =>
       /\ accumulatedMs = 0
       /\ LiveElapsed = 0
       /\ durationMs - LiveElapsed = trainingDuration * 1000

\* C21 case: a second session has just been started, some time after the
\* first one was
C21_Witness ==
  /\ prog = "Acc" /\ op = "startTimer" /\ sessions = 2
  /\ pauses = 0 /\ now > ClockOrigin /\ accumulatedMs = 0

\* the message the policy names for elapsed minute m of a session of T
\* minutes
PolicyMessage(m, T) ==
  CASE m = 3 -> <<"GreatStart">>
    [] m # 3 /\ m = 6 -> <<"HalfwayFirstInterval">>
    [] m \notin {3, 6} /\ m = T \div 2 -> <<"HalfwaySession", T>>
    [] m \notin {3, 6, T \div 2} /\ m = T - 3 -> <<"AlmostThere">>
    [] OTHER -> <<"KeepGoing", m>>

\* C22: for every total duration of 5..120 minutes and every elapsed time,
\* sendIntervalNotification makes exactly one delivery call, with the first
\* message of the policy that matches the elapsed minute.
C22_MessagePolicy ==
  (prog = "Notify" /\ op = "notify") =>
    /\ Len(sent) = 1
    /\ sent[1].kind = "interval"
    /\ sent[1].msg = PolicyMessage(sent[1].at \div 60, trainingDuration \div 60)

\* C22 case: minute 6 of a 12-minute session, where two rules match and the
\* first one is taken
C22_Witness ==
  /\ prog = "Notify" /\ op = "notify"
  /\ trainingDuration = 12 * 60 /\ sent[1].at = 6 * 60
  /\ sent[1].msg = <<"HalfwayFirstInterval">>

\* the state the timer progresses in
Progress ==
  <<isTimerActive, isPausePrompt, trainingDuration, startTime, pausedTime,
    pauseStartTime, timeRemaining, timeoutRef, timers>>

\* C23: in App.tsx a delivery that fails leaves the timer as a delivery
\* that succeeds does: neither outcome changes the state the timer
\* progresses in, a running session keeps its one timeout pending, and a
\* session is stopped and reset by the tick that completes it, before the
\* outcome of its completion notification is known, and is still so when the
\* delivery fails.
C23_DeliveryFailureHarmless ==
  [][(prog = "App") =>
      /\ (op' \in {"completeSettled", "completeFailed"}) =>
           /\ Progress' = Progress
           /\ (Running' /\ ~effectPending') => (timers' # {})
      /\ (op' = "completeFailed" /\ sent[Len(sent)].kind = "complete") =>
           /\ ~isTimerActive' /\ ~isPausePrompt'
           /\ startTime' = Null /\ pausedTime' = 0 /\ pauseStartTime' = Null
           /\ timers' = {} /\ timeoutRef' = NoTimeout
      /\ (Len(sent') > Len(sent) /\ sent'[Len(sent')].kind = "complete") =>
           /\ ~isTimerActive' /\ startTime' = Null /\ pausedTime' = 0
           /\ timers' = {} /\ timeRemaining' = trainingDuration']_vars

\* C23 case: the completion notification of a session failed and the timer
\* is idle, with the full duration on display
C23_Witness ==
  /\ prog = "App" /\ op = "completeFailed" /\ sessions >= 1
  /\ sent[Len(sent)].kind = "complete"
  /\ ~isTimerActive /\ ~showConfetti /\ startTime = Null /\ timers = {}

\* C24: in part_001 the app is Idle after a restart, before and after its
\* mount effect, whatever the store held under accumulatedMs and startMonoMs
\* (a value, nothing, or a corrupt value), and an absent accumulatedMs is
\* read as no elapsed time.
C24_RestartIdle ==
  (prog = "Acc" /\ op \in {"init", "mount"}) =>
    /\ Status = "Idle"
    /\ ~isRunning /\ ~isTimerActive /\ sv = NoDisplay
    /\ (accumulatedMs = Null) => (DisplayProps[2] = 0 /\ LiveElapsed = 0)

\* C24 case: the mount effect has run and the hooks read both keys as
\* absent
C24_Witness ==
  /\ prog = "Acc" /\ op = "mount" /\ Status = "Idle"
  /\ accumulatedMs = Null /\ startMonoMs = Null

\* the remaining seconds by the anchors and the clock
RemainingByAnchors ==
  Max(0, trainingDuration - Floor(now - startTime - pausedTime, 1000))

C26_DelayOnGrid ==
  [][(prog = "App" /\ op' \in {"tick", "effectTick"}
        /\ timeoutRef' # NoTimeout) =>
       LET delay == timeoutRef'.due - now
           totalElapsedSeconds == Floor(now - startTime - pausedTime, 1000)
       IN  /\ timeoutRef' \in timers'
           /\ delay \in 1 .. 1000
           /\ now + delay
                = startTime + pausedTime + (totalElapsedSeconds + 1) * 1000]_vars

\* C26 case: a tick that ran 50 ms late, on a session whose anchor is not a
\* whole second of the clock, has set its timeout 950 ms ahead
C26_Witness ==
  /\ prog = "App" /\ op = "tick" /\ Running
  /\ timeoutRef # NoTimeout /\ timeoutRef.due - now = 950
  /\ (startTime + pausedTime) % 1000 # 0

\* C27: in App.tsx at most one tick timeout is pending at any time, and it
\* is the one timeoutRef holds, however timeout firings, runs of the
\* lifecycle effect and calls of start, pause, resume and end interleave;
\* a tick runs to its end as one step, so a tick that starts finds no
\* timeout pending but the one that fired or the one its caller has cleared.
C27_OneTimeoutPending ==
  (prog = "App") =>
    /\ Cardinality(timers) <= 1
    /\ timers \subseteq {timeoutRef}
    /\ (timeoutRef # NoTimeout) => (timers = {timeoutRef})

\* C27 case: the lifecycle effect has cleared the pending timeout of a
\* resumed session and its tick has set the one timeout pending now
C27_Witness ==
  /\ prog = "App" /\ op = "effectTick" /\ Running /\ pausedTime > 0
  /\ Cardinality(timers) = 1 /\ timers = {timeoutRef}

\* C28: a tick of App.tsx that finds the elapsed seconds at or beyond the
\* duration sends the completion notification and nothing else; every
\* interval notification a tick sends is for a boundary short of the
\* duration; and no interval notification follows the completion
\* notification of its session.
C28_CompletionOnly ==
  [][(prog = "App") =>
      /\ (Running /\ op' \in {"tick", "effectTick"}) =>
           LET elapsed == Floor(now - startTime - pausedTime, 1000)
           IN  /\ (elapsed >= trainingDuration) =>
                    (sent' = Append(sent, CompleteNote))
               /\ \A i \in Len(sent) + 1 .. Len(sent') :
                    (sent'[i].kind = "interval") =>
                      /\ sent'[i].at < trainingDuration
                      /\ elapsed < trainingDuration
      /\ \A i, j \in 1 .. Len(sent') :
           (i < j /\ sent'[i].kind = "complete")
             => (sent'[j].kind # "interval")]_vars

\* C28 case: a 15-minute session has been completed by a tick at exactly
\* 900 s, a multiple of 180 s, and the completion notification is the one
\* notification of that tick
C28_Witness ==
  /\ prog = "App" /\ op \in {"tick", "effectTick"} /\ Status = "Idle"
  /\ trainingDuration = 900 /\ ranMs = 900000
  /\ Len(sent) >= 2 /\ sent[Len(sent)].kind = "complete"
  /\ sent[Len(sent) - 1].kind # "interval" \/ sent[Len(sent) - 1].at < 900

C29_PresetCountdownBounds ==
  (prog = "App" /\ (Running \/ Paused)) =>
    /\ trainingDuration % 180 = 0
    /\ CurrentIntervalRemaining \in 1 .. 180
    /\ CurrentIntervalRemaining <= timeRemaining

\* C30: in App.tsx, with every operation called only where the render shows
\* its control, isTimerActive and isPausePrompt are never both true,
\* startTime is set exactly while the session is Running or Paused, and
\* pauseStartTime is set exactly while it is Paused.
C30_FlagsAndAnchors ==
  (prog = "App") =>
    /\ ~(isTimerActive /\ isPausePrompt)
    /\ (startTime # Null) <=> (isTimerActive \/ isPausePrompt)
    /\ (pauseStartTime # Null) <=> (~isTimerActive /\ isPausePrompt)

\* C30 case: a session ended from its second pause; both anchors are absent
\* again
C30_Witness ==
  /\ prog = "App" /\ op = "endTraining" /\ pauses = 2 /\ Status = "Idle"
  /\ startTime = Null /\ pauseStartTime = Null

====
